---- MODULE Spec2Model ----
(***************************************************************************)
(* A model of route53.go: the route53Zone type, its resolution (setZone),  *)
(* the record ownership validator (recordBelongsToZone), the change        *)
(* submitter (changeCname) and the propagation watcher (waitForChange).    *)
(*                                                                         *)
(* Go strings are modelled as sequences of one-character strings, so that  *)
(* strings.Trim, strings.HasSuffix, strings.TrimSuffix and                 *)
(* strings.Contains are computed character by character.                   *)
(***************************************************************************)
EXTENDS Integers, Sequences, FiniteSets, TLC

VARIABLES
    \* ---- the caller's flow through newRoute53Zone / UpsertCname / DeleteCname
    pc,          \* where the calling goroutine is
    call,        \* the call in progress (or the last one): [fn, name, value]
    result,      \* what the last call returned: "none" while it runs
    handle,      \* whether newRoute53Zone handed a *route53Zone to the caller
    z,           \* the route53Zone struct: [Name, ID, Nameservers]
    ops,         \* number of calls started so far
    zonesOut,    \* setZone: what ListHostedZonesByName answered
    zoneOut,     \* setZone: what GetHostedZone answered
    changeOut,   \* changeCname: what ChangeResourceRecordSets answered
    \* ---- the provider, as the calls see it
    request,     \* the input of the provider operation last called
    apiCalls,    \* provider operations called during the current call
    nextChange,  \* the provider's next change identifier
    submitted,   \* the changes the provider accepted, in order
    records,     \* the provider's record sets: zone id and name to record
    recordsWere, \* the record sets before the change accepted last
    \* ---- waitForChange
    changeID,    \* the parameter of waitForChange
    watched,     \* the arguments waitForChange was called with, in order
    polled,      \* <<n, id>>: the n-th watch called GetChange with id
    timeout,     \* the time.Timer: "none", "running", "fired", "stopped"
    tick,        \* the time.Ticker: "none", "running", "stopped"
    timeoutC,    \* timeout.C holds a value
    tickC,       \* tick.C holds a value
    nextTick,    \* the time the ticker fires next, in seconds since the start
    change,      \* the status of the last GetChange output ("none" before)
    err,         \* the error of the last GetChange ("nil" when none)
    watch,       \* the watcher's state: Polling, Applied, TimedOut, Errored
    deadline,    \* the timer fired during this watch
    latePoll,    \* a poll of this watch was started after the timer fired
    earlyOther,  \* a poll started before the timer fired did not answer PENDING
    slowPoll,    \* a timer fired while a GetChange of this watch was in flight
    \* ---- the validator on its own
    vpc, vRecord, vZone, vResult,
    vDotted,     \* the validator's answers with a dot added to the names
    \* two callers, each on its own zone handle
    cur,         \* the caller whose goroutine the variables above describe
    peer         \* the other caller's handle, call and position, set aside

vars == <<pc, call, result, handle, z, ops, zonesOut, zoneOut, changeOut,
          request, apiCalls, nextChange, submitted, records, recordsWere,
          changeID, watched, polled, timeout, tick, timeoutC, tickC,
          nextTick, change, err, watch, deadline, latePoll, earlyOther,
          slowPoll, vpc, vRecord, vZone, vResult, vDotted, cur, peer>>

flowVars == <<pc, call, result, handle, z, ops, zonesOut, zoneOut, changeOut,
              request, apiCalls, nextChange, submitted, records,
              recordsWere, changeID, watched, polled, timeout, tick,
              timeoutC, tickC, nextTick, change, err, watch, deadline,
              latePoll, earlyOther, slowPoll>>

validatorVars == <<vpc, vRecord, vZone, vResult, vDotted>>

callerVars == <<cur, peer>>

-----------------------------------------------------------------------------
(* Bounds of the model *)

\* longest record name given to the validator on its own
MaxRecordLen == 5
\* longest zone name given to the validator on its own
MaxZoneLen == 3
\* calls (newRoute53Zone, UpsertCname, DeleteCname) one run makes
MaxOps == 3
\* the count of GetChange calls of one call stops counting here
MaxCounted == 14

(* Program constants *)

defaultRoute53RecordTTL == 60
\* a ticker of half the period
halvedInterval == 10 \div 2

defaultRoute53ZoneWaitWatchInterval == 10
defaultRoute53ZoneWaitWatchTimeout == 120

errRoute53NoHostedZoneFound == "could not find a Route53 hosted zone"
errRoute53WaitWatchTimedOut == "timed out waiting for changes to be applied"
errRoute53RecordNotInZone == "record does not belong to zone"

Comment == "Managed by ingress-route53-registrator"

-----------------------------------------------------------------------------
(* Strings *)

Chars == {"a", "b", "."}

Str(n) == UNION {[1..k -> Chars] : k \in 0..n}

Min(a, b) == IF a < b THEN a ELSE b

RECURSIVE TrimLeft(_, _)
TrimLeft(s, c) ==
    IF s # <<>> /\ Head(s) = c THEN TrimLeft(Tail(s), c) ELSE s

RECURSIVE TrimRight(_, _)
TrimRight(s, c) ==
    IF s # <<>> /\ s[Len(s)] = c
    THEN TrimRight(SubSeq(s, 1, Len(s) - 1), c)
    ELSE s

\* strings.TrimLeft in the place of strings.Trim
TrimLeading(s, c) == TrimLeft(s, c)

\* strings.Trim(s, cutset) for a cutset of one character: every leading and
\* every trailing occurrence is removed
Trim(s, c) == TrimRight(TrimLeft(s, c), c)

HasSuffix(s, suffix) ==
    /\ Len(suffix) <= Len(s)
    /\ SubSeq(s, Len(s) - Len(suffix) + 1, Len(s)) = suffix

TrimSuffix(s, suffix) ==
    IF HasSuffix(s, suffix) THEN SubSeq(s, 1, Len(s) - Len(suffix)) ELSE s

Contains(s, substr) ==
    \E i \in 1..(Len(s) + 1) :
        /\ i + Len(substr) - 1 <= Len(s)
        /\ SubSeq(s, i, i + Len(substr) - 1) = substr

-----------------------------------------------------------------------------
(* The record ownership validator *)

recordBelongsToZone(record, zone) ==
    LET zn == Trim(zone, ".")
        rc == Trim(record, ".")
        zoneSuffix == <<".">> \o zn
    IN  IF rc = zn THEN FALSE
        ELSE IF ~HasSuffix(rc, zoneSuffix) THEN FALSE
        ELSE ~Contains(TrimSuffix(rc, zoneSuffix), <<".">>)

-----------------------------------------------------------------------------
(* What the caller passes in and what the provider answers with *)

\* zone names a caller asks newRoute53Zone for: "b" and "b."
ZoneNames == {<<"b">>, <<"b", ".">>}

\* names of the candidate ListHostedZonesByName answers with: "b.", "b", "bb."
CandidateNames == {<<"b", ".">>, <<"b">>, <<"b", "b", ".">>}

ZoneIds == {"Z1", "Z2"}

NameServerLists == {<<>>, <<"ns1", "ns2">>}

\* record names a caller passes: "a.b", "a.a.b" and "b"
RecordNames == {<<"a", ".", "b">>, <<"a", ".", "a", ".", "b">>, <<"b">>}

Values == {"target"}

\* errors the provider's operations return
ProviderErrors == {"Throttling", "AccessDenied"}

ListOutputs ==
    {[err |-> e, HostedZones |-> <<>>] : e \in ProviderErrors}
    \cup {[err |-> "nil", HostedZones |-> <<>>]}
    \cup {[err |-> "nil", HostedZones |-> <<[Name |-> n, Id |-> i]>>] :
            n \in CandidateNames, i \in ZoneIds}

GetHostedZoneOutputs ==
    {[err |-> e, Id |-> "", NameServers |-> <<>>] : e \in ProviderErrors}
    \cup {[err |-> "nil", Id |-> i, NameServers |-> ns] :
            i \in ZoneIds, ns \in NameServerLists}

\* an accepted change gets the provider's next identifier
ChangeOutputs ==
    {[err |-> e, Id |-> 0] : e \in ProviderErrors}
    \cup {[err |-> "nil", Id |-> nextChange]}

GetChangeOutputs ==
    {[err |-> e, Status |-> "none"] : e \in ProviderErrors}
    \cup {[err |-> "nil", Status |-> s] : s \in {"PENDING", "INSYNC"}}

-----------------------------------------------------------------------------
(* State after construction *)

\* the zero value of route53Zone, as &route53Zone{api: ...} leaves it
ZeroZone == [Name |-> <<>>, ID |-> "", Nameservers |-> <<>>]

NoCall == [fn |-> "none", name |-> <<>>, value |-> ""]

NoRequest == [op |-> "none"]

NoZones == [err |-> "nil", HostedZones |-> <<>>]

NoZone == [err |-> "nil", Id |-> "", NameServers |-> <<>>]

NoChange == [err |-> "nil", Id |-> 0]

\* the provider holds no record
NoRecords == {}

NoCalls == [ListHostedZonesByName |-> 0, GetHostedZone |-> 0,
            ChangeResourceRecordSets |-> 0, GetChange |-> 0]

FlowInit ==
    /\ pc = "idle"
    /\ call = NoCall
    /\ result = "none"
    /\ handle = FALSE
    /\ z = ZeroZone
    /\ ops = 0
    /\ zonesOut = NoZones
    /\ zoneOut = NoZone
    /\ changeOut = NoChange
    /\ request = NoRequest
    /\ apiCalls = NoCalls
    /\ nextChange = 1
    /\ submitted = <<>>
    /\ records = NoRecords
    /\ recordsWere = NoRecords
    /\ changeID = 0
    /\ watched = <<>>
    /\ polled = {}
    /\ timeout = "none"
    /\ tick = "none"
    /\ timeoutC = FALSE
    /\ tickC = FALSE
    /\ nextTick = 0
    /\ change = "none"
    /\ err = "nil"
    /\ watch = "none"
    /\ deadline = FALSE
    /\ latePoll = FALSE
    /\ earlyOther = FALSE
    /\ slowPoll = FALSE

NotValidated == [record |-> FALSE, zone |-> FALSE, both |-> FALSE]

ValidatorIdle ==
    /\ vpc = "off"
    /\ vRecord = <<>>
    /\ vZone = <<>>
    /\ vResult = FALSE
    /\ vDotted = NotValidated

\* what belongs to one caller before its first call: its zone handle, the
\* arguments and locals of its call, the answers it got, its timers
FreshCaller ==
    [pc |-> "idle", call |-> NoCall, result |-> "none", handle |-> FALSE,
     z |-> ZeroZone, ops |-> 0, zonesOut |-> NoZones, zoneOut |-> NoZone,
     changeOut |-> NoChange, request |-> NoRequest, apiCalls |-> NoCalls,
     changeID |-> 0, timeout |-> "none", tick |-> "none",
     timeoutC |-> FALSE, tickC |-> FALSE, nextTick |-> 0, change |-> "none",
     err |-> "nil", watch |-> "none", deadline |-> FALSE,
     latePoll |-> FALSE, earlyOther |-> FALSE, slowPoll |-> FALSE]

\* one caller: nothing is set aside
OneCaller ==
    /\ cur = 0
    /\ peer = FreshCaller

Init == FlowInit /\ ValidatorIdle /\ OneCaller

\* the watcher's variables as they are outside waitForChange
NoWatch ==
    /\ changeID' = 0
    /\ timeout' = "none"
    /\ tick' = "none"
    /\ timeoutC' = FALSE
    /\ tickC' = FALSE
    /\ nextTick' = 0
    /\ change' = "none"
    /\ err' = "nil"
    /\ watch' = "none"
    /\ deadline' = FALSE
    /\ latePoll' = FALSE
    /\ earlyOther' = FALSE
    /\ slowPoll' = FALSE

watchVars == <<changeID, timeout, tick, timeoutC, tickC, nextTick, change,
               err, watch, deadline, latePoll, earlyOther, slowPoll>>

-----------------------------------------------------------------------------
(* newRoute53Zone and setZone *)

\* an error test that lets every error through
failedNever(out) == FALSE

\* an error test that gives up on a denial alone
failedOnDenial(out) == out.err = "AccessDenied"

\* the test `err != nil` after a provider call of setZone or changeCname
failed(out) == out.err # "nil"

ListHostedZonesByNameInput(name) ==
    [op |-> "ListHostedZonesByName", DNSName |-> name, MaxItems |-> "1"]

GetHostedZoneInput(id) == [op |-> "GetHostedZone", Id |-> id]

\* a test of setZone that takes any candidate
noHostedZoneFoundEmptyOnly(zones, name) == Len(zones) = 0

\* the test of setZone on the candidates: TRUE when setZone gives up
noHostedZoneFound(zones, name) ==
    Len(zones) = 0 \/ zones[1].Name # name

\* the fields setZone stores once GetHostedZone has answered
zoneFields(name, out) ==
    [Name |-> name, ID |-> out.Id,
     Nameservers |-> [i \in 1..Len(out.NameServers) |-> out.NameServers[i]]]

\* newRoute53Zone up to the first provider call of setZone
newRoute53Zone(zoneName) ==
    /\ pc = "idle"
    /\ ops < MaxOps
    /\ ops' = ops + 1
    /\ call' = [fn |-> "newRoute53Zone", name |-> zoneName, value |-> ""]
    /\ z' = ZeroZone
    /\ handle' = FALSE
    /\ result' = "none"
    /\ request' = ListHostedZonesByNameInput(zoneName)
    /\ apiCalls' = [NoCalls EXCEPT !.ListHostedZonesByName = 1]
    /\ pc' = "ListHostedZonesByName"
    /\ zonesOut' = NoZones
    /\ zoneOut' = NoZone
    /\ changeOut' = NoChange
    /\ NoWatch
    /\ UNCHANGED <<nextChange, submitted, records, recordsWere, watched,
                   polled>>
    /\ UNCHANGED validatorVars
    /\ UNCHANGED callerVars

\* setZone from the answer of ListHostedZonesByName to the next provider call
ListHostedZonesByNameReturn(out) ==
    /\ pc = "ListHostedZonesByName"
    /\ zonesOut' = out
    /\ IF failed(out)
       THEN /\ result' = out.err
            /\ pc' = "idle"
            /\ UNCHANGED <<request, apiCalls>>
       ELSE IF noHostedZoneFound(out.HostedZones, call.name)
       THEN /\ result' = errRoute53NoHostedZoneFound
            /\ pc' = "idle"
            /\ UNCHANGED <<request, apiCalls>>
       ELSE /\ request' = GetHostedZoneInput(out.HostedZones[1].Id)
            /\ apiCalls' = [apiCalls EXCEPT !.GetHostedZone = @ + 1]
            /\ pc' = "GetHostedZone"
            /\ UNCHANGED result
    /\ UNCHANGED <<call, handle, z, ops, zoneOut, changeOut, nextChange,
                   submitted, records, recordsWere, watched, polled>>
    /\ UNCHANGED watchVars
    /\ UNCHANGED validatorVars
    /\ UNCHANGED callerVars

\* setZone from the answer of GetHostedZone to the return of newRoute53Zone
GetHostedZoneReturn(out) ==
    /\ pc = "GetHostedZone"
    /\ zoneOut' = out
    /\ IF failed(out)
       THEN /\ result' = out.err
            /\ UNCHANGED <<z, handle>>
       ELSE /\ z' = zoneFields(call.name, out)
            /\ handle' = TRUE
            /\ result' = "nil"
    /\ pc' = "idle"
    /\ UNCHANGED <<call, ops, zonesOut, changeOut, request, apiCalls,
                   nextChange, submitted, records, recordsWere, watched,
                   polled>>
    /\ UNCHANGED watchVars
    /\ UNCHANGED validatorVars
    /\ UNCHANGED callerVars

-----------------------------------------------------------------------------
(* changeCname: the change submitter *)

\* changeCname without its first test
notInZoneSkipped(recordName, zoneName) == FALSE

\* the first test of changeCname: TRUE when it returns errRoute53RecordNotInZone
notInZone(recordName, zoneName) == ~recordBelongsToZone(recordName, zoneName)

\* a record set whose values are appended to a slice that outlives the call
resourceRecordSetReusedSlice(action, recordName, value) ==
    IF action = "DELETE"
    THEN [Name |-> recordName]
    ELSE [Name |-> recordName,
          TTL |-> defaultRoute53RecordTTL,
          Type |-> "CNAME",
          ResourceRecords |->
              [i \in 1..(Len(submitted) + 1) |-> [Value |-> value]]]

\* the record set changeCname builds
resourceRecordSet(action, recordName, value) ==
    IF action = "DELETE"
    THEN [Name |-> recordName]
    ELSE [Name |-> recordName,
          TTL |-> defaultRoute53RecordTTL,
          Type |-> "CNAME",
          ResourceRecords |-> <<[Value |-> value]>>]

\* an upsert sent as a batch that deletes the record and creates it again
ChangeResourceRecordSetsInputAsBatch(action, recordName, value) ==
    [op |-> "ChangeResourceRecordSets",
     Changes |-> <<[Action |-> action,
                    ResourceRecordSet |-> [Name |-> recordName]],
                   [Action |-> "CREATE",
                    ResourceRecordSet |->
                        resourceRecordSet(action, recordName, value)]>>,
     Comment |-> Comment,
     HostedZoneId |-> z.ID]

ChangeResourceRecordSetsInput(action, recordName, value) ==
    [op |-> "ChangeResourceRecordSets",
     Changes |-> <<[Action |-> action,
                    ResourceRecordSet |->
                        resourceRecordSet(action, recordName, value)]>>,
     Comment |-> Comment,
     HostedZoneId |-> z.ID]

\* changeCname giving every watch the identifier of the first change
watchArgumentStale(out) == IF watched = <<>> THEN out.Id ELSE watched[1]

\* the argument changeCname gives waitForChange
watchArgument(out) == out.Id

\* the input of the GetChange call of waitForChange(id)
GetChangeInput(id) == [op |-> "GetChange", Id |-> id]

\* a changeCname that stores the zone's name without its dots
changeCnameTrimsZone(fn, action, recordName, value) ==
    /\ pc = "idle"
    /\ handle
    /\ ops < MaxOps
    /\ ops' = ops + 1
    /\ call' = [fn |-> fn, name |-> recordName, value |-> value]
    /\ IF notInZone(recordName, z.Name)
       THEN /\ result' = errRoute53RecordNotInZone
            /\ request' = NoRequest
            /\ apiCalls' = NoCalls
            /\ pc' = "idle"
       ELSE /\ result' = "none"
            /\ request' =
                   ChangeResourceRecordSetsInput(action, recordName, value)
            /\ apiCalls' = [NoCalls EXCEPT !.ChangeResourceRecordSets = 1]
            /\ pc' = "ChangeResourceRecordSets"
    /\ zonesOut' = NoZones
    /\ zoneOut' = NoZone
    /\ changeOut' = NoChange
    /\ NoWatch
    /\ z' = [z EXCEPT !.Name = Trim(@, ".")]
    /\ UNCHANGED <<handle, nextChange, submitted, records, recordsWere,
                   watched, polled>>
    /\ UNCHANGED validatorVars
    /\ UNCHANGED callerVars

\* changeCname up to its first provider call
changeCname(fn, action, recordName, value) ==
    /\ pc = "idle"
    /\ handle
    /\ ops < MaxOps
    /\ ops' = ops + 1
    /\ call' = [fn |-> fn, name |-> recordName, value |-> value]
    /\ IF notInZone(recordName, z.Name)
       THEN /\ result' = errRoute53RecordNotInZone
            /\ request' = NoRequest
            /\ apiCalls' = NoCalls
            /\ pc' = "idle"
       ELSE /\ result' = "none"
            /\ request' =
                   ChangeResourceRecordSetsInput(action, recordName, value)
            /\ apiCalls' = [NoCalls EXCEPT !.ChangeResourceRecordSets = 1]
            /\ pc' = "ChangeResourceRecordSets"
    /\ zonesOut' = NoZones
    /\ zoneOut' = NoZone
    /\ changeOut' = NoChange
    /\ NoWatch
    /\ UNCHANGED <<handle, z, nextChange, submitted, records, recordsWere,
                   watched, polled>>
    /\ UNCHANGED validatorVars
    /\ UNCHANGED callerVars

UpsertCname(recordName, value) ==
    changeCname("UpsertCname", "UPSERT", recordName, value)

DeleteCname(recordName) == changeCname("DeleteCname", "DELETE", recordName, "")

\* The provider's side of a change it accepts: an UPSERT puts the record set
\* of the request in the place of the one of that name, a DELETE removes the
\* one of that name; the record sets of other names and zones stay.
applyChange(recs, zoneId, ch) ==
    LET others == {r \in recs : ~(r.HostedZoneId = zoneId
                                   /\ r.Name = ch.ResourceRecordSet.Name)}
    IN  IF ch.Action = "UPSERT"
        THEN others \cup {[HostedZoneId |-> zoneId,
                            Name |-> ch.ResourceRecordSet.Name,
                            ResourceRecordSet |-> ch.ResourceRecordSet]}
        ELSE others

\* changeCname from the answer of ChangeResourceRecordSets on: it returns the
\* provider's error, or enters waitForChange, which creates its two timers.
\* A change the provider accepted is in its record sets from then on.
ChangeResourceRecordSetsReturn(out) ==
    /\ pc = "ChangeResourceRecordSets"
    /\ changeOut' = out
    /\ IF out.err = "nil"
       THEN /\ nextChange' = nextChange + 1
            /\ submitted' = Append(submitted,
                   [Action |-> request.Changes[1].Action,
                    Name |-> request.Changes[1].ResourceRecordSet.Name,
                    HostedZoneId |-> request.HostedZoneId,
                    ResourceRecordSet |->
                        request.Changes[1].ResourceRecordSet,
                    Value |-> call.value,
                    Id |-> out.Id])
            /\ recordsWere' = records
            /\ records' = applyChange(records, request.HostedZoneId,
                                      request.Changes[1])
       ELSE UNCHANGED <<nextChange, submitted, records, recordsWere>>
    /\ IF failed(out)
       THEN /\ result' = out.err
            /\ pc' = "idle"
            /\ UNCHANGED watched
            /\ UNCHANGED watchVars
       ELSE /\ changeID' = watchArgument(out)
            /\ watched' = Append(watched, watchArgument(out))
            /\ timeout' = "running"
            /\ tick' = "running"
            /\ timeoutC' = FALSE
            /\ tickC' = FALSE
            /\ nextTick' = defaultRoute53ZoneWaitWatchInterval
            /\ change' = "none"
            /\ err' = "nil"
            /\ watch' = "Polling"
            /\ deadline' = FALSE
            /\ latePoll' = FALSE
            /\ earlyOther' = FALSE
            /\ slowPoll' = FALSE
            /\ pc' = "select"
            /\ UNCHANGED result
    /\ UNCHANGED <<call, handle, z, ops, zonesOut, zoneOut, request, apiCalls,
                   polled>>
    /\ UNCHANGED validatorVars
    /\ UNCHANGED callerVars

-----------------------------------------------------------------------------
(* waitForChange: the propagation watcher *)

\* a deferred function that stops the timer alone
deferredStopLeaksTicker == [timeout |-> "stopped", tick |-> "running"]

\* the deferred function of waitForChange
deferredStop == [timeout |-> "stopped", tick |-> "stopped"]

\* a return of waitForChange, and with it of changeCname: the deferred
\* function runs, and the channels of the two timers are dropped with them
ReturnFromWatch(e, state) ==
    /\ result' = e
    /\ watch' = state
    /\ timeout' = deferredStop.timeout
    /\ tick' = deferredStop.tick
    /\ timeoutC' = FALSE
    /\ tickC' = FALSE
    /\ pc' = "idle"

\* the case <-tick.C of the select, up to the GetChange call
CallGetChange ==
    /\ request' = GetChangeInput(changeID)
    /\ apiCalls' = [apiCalls EXCEPT !.GetChange = Min(@ + 1, MaxCounted)]
    /\ polled' = polled \cup {<<Len(watched), request'.Id>>}
    /\ latePoll' = (latePoll \/ deadline)
    /\ pc' = "GetChange"

\* the case <-timeout.C of the select
timedOut == [e |-> errRoute53WaitWatchTimedOut, state |-> "TimedOut"]

\* Time passes while the goroutine is blocked in the select or waits for
\* the answer of GetChange; between the two it reaches the select in no time
\* compared with the periods of the timers.
TimePasses == pc \in {"blocked", "GetChange"}

\* The timer fires once, defaultRoute53ZoneWaitWatchTimeout after its start:
\* after every tick that is due earlier. A goroutine blocked in the select
\* receives the value at once; otherwise the value waits in timeout.C.
TimeoutFire ==
    /\ TimePasses
    /\ timeout = "running"
    /\ defaultRoute53ZoneWaitWatchTimeout <= nextTick
    /\ deadline' = TRUE
    /\ slowPoll' = (slowPoll \/ pc = "GetChange")
    /\ IF pc = "blocked"
       THEN /\ ReturnFromWatch(timedOut.e, timedOut.state)
            /\ UNCHANGED <<request, apiCalls, polled, latePoll>>
       ELSE /\ timeout' = "fired"
            /\ timeoutC' = TRUE
            /\ UNCHANGED <<pc, result, watch, tick, tickC, request, apiCalls,
                           polled, latePoll>>
    /\ UNCHANGED <<call, handle, z, ops, zonesOut, zoneOut, changeOut,
                   nextChange, submitted, records, recordsWere, changeID,
                   watched, nextTick, change, err, earlyOther>>
    /\ UNCHANGED validatorVars
    /\ UNCHANGED callerVars

\* The ticker fires every defaultRoute53ZoneWaitWatchInterval. A goroutine
\* blocked in the select receives the tick at once; otherwise the tick waits
\* in tick.C, which holds one value: a tick that finds it full is dropped.
\* Once the timer has fired the time of the next tick is no longer tracked.
TickFire ==
    /\ TimePasses
    /\ tick = "running"
    /\ \/ timeout # "running"
       \/ nextTick < defaultRoute53ZoneWaitWatchTimeout
    /\ nextTick' = IF timeout = "running"
                   THEN nextTick + defaultRoute53ZoneWaitWatchInterval
                   ELSE nextTick
    /\ slowPoll' = (slowPoll \/ pc = "GetChange")
    /\ IF pc = "blocked"
       THEN /\ CallGetChange
            /\ UNCHANGED tickC
       ELSE /\ tickC' = TRUE
            /\ UNCHANGED <<pc, request, apiCalls, polled, latePoll>>
    /\ UNCHANGED <<call, result, handle, z, ops, zonesOut, zoneOut,
                   changeOut, nextChange, submitted, records, recordsWere,
                   changeID, watched, timeout, tick, timeoutC, change, err,
                   watch, deadline, earlyOther>>
    /\ UNCHANGED validatorVars
    /\ UNCHANGED callerVars

\* the select finds a tick waiting and takes that case
SelectTick ==
    /\ pc = "select"
    /\ tickC
    /\ tickC' = FALSE
    /\ CallGetChange
    /\ UNCHANGED <<call, result, handle, z, ops, zonesOut, zoneOut,
                   changeOut, nextChange, submitted, records, recordsWere,
                   changeID, watched, timeout, tick, timeoutC, nextTick,
                   change, err, watch, deadline, earlyOther, slowPoll>>
    /\ UNCHANGED validatorVars
    /\ UNCHANGED callerVars

\* a case <-timeout.C that goes round the loop again
SelectTimeoutContinues ==
    /\ pc = "select"
    /\ timeoutC
    /\ timeoutC' = FALSE
    /\ UNCHANGED <<pc, call, result, handle, z, ops, zonesOut, zoneOut,
                   changeOut, request, apiCalls, nextChange, submitted,
                   records, recordsWere, changeID, watched, polled, timeout,
                   tick, tickC, nextTick, change, err, watch, deadline,
                   latePoll, earlyOther, slowPoll>>
    /\ UNCHANGED validatorVars
    /\ UNCHANGED callerVars

\* the select finds the timer's value waiting and takes that case
SelectTimeout ==
    /\ pc = "select"
    /\ timeoutC
    /\ ReturnFromWatch(timedOut.e, timedOut.state)
    /\ UNCHANGED <<call, handle, z, ops, zonesOut, zoneOut, changeOut,
                   request, apiCalls, nextChange, submitted, records,
                   recordsWere, changeID, watched, polled, nextTick, change,
                   err, deadline, latePoll, earlyOther, slowPoll>>
    /\ UNCHANGED validatorVars
    /\ UNCHANGED callerVars

\* the select finds neither channel ready and blocks
SelectBlock ==
    /\ pc = "select"
    /\ ~tickC
    /\ ~timeoutC
    /\ pc' = "blocked"
    /\ UNCHANGED <<call, result, handle, z, ops, zonesOut, zoneOut,
                   changeOut, request, apiCalls, nextChange, submitted,
                   records, recordsWere, watched, polled>>
    /\ UNCHANGED watchVars
    /\ UNCHANGED validatorVars
    /\ UNCHANGED callerVars

\* a waitForChange that does not recognise INSYNC
pollOutcomeMissesInsync(out) ==
    IF out.err # "nil" THEN [do |-> "return", e |-> out.err, state |-> "Errored"]
    ELSE [do |-> "continue", e |-> "nil", state |-> "Polling"]

\* a waitForChange that polls again after an error
pollOutcomeRetriesError(out) ==
    IF out.err = "nil" /\ out.Status = "INSYNC"
    THEN [do |-> "return", e |-> "nil", state |-> "Applied"]
    ELSE [do |-> "continue", e |-> "nil", state |-> "Polling"]

\* what waitForChange does with the answer of GetChange
pollOutcome(out) ==
    IF out.err # "nil" THEN [do |-> "return", e |-> out.err, state |-> "Errored"]
    ELSE IF out.Status = "INSYNC"
    THEN [do |-> "return", e |-> "nil", state |-> "Applied"]
    ELSE [do |-> "continue", e |-> "nil", state |-> "Polling"]

\* GetChange answers: the case <-tick.C from the answer on
GetChangeReturn(out) ==
    /\ pc = "GetChange"
    /\ err' = out.err
    /\ change' = out.Status
    /\ earlyOther' =
           (earlyOther \/ (~latePoll /\ ~(out.err = "nil" /\ out.Status = "PENDING")))
    /\ IF pollOutcome(out).do = "return"
       THEN ReturnFromWatch(pollOutcome(out).e, pollOutcome(out).state)
       ELSE /\ pc' = "select"
            /\ UNCHANGED <<result, watch, timeout, tick, timeoutC, tickC>>
    /\ UNCHANGED <<call, handle, z, ops, zonesOut, zoneOut, changeOut,
                   request, apiCalls, nextChange, submitted, records,
                   recordsWere, changeID, watched, polled, nextTick,
                   deadline, latePoll, slowPoll>>
    /\ UNCHANGED validatorVars
    /\ UNCHANGED callerVars

-----------------------------------------------------------------------------
(* The calls of one caller on one zone handle *)

Next ==
    \/ \E zoneName \in ZoneNames : newRoute53Zone(zoneName)
    \/ \E out \in ListOutputs : ListHostedZonesByNameReturn(out)
    \/ \E out \in GetHostedZoneOutputs : GetHostedZoneReturn(out)
    \/ \E recordName \in RecordNames, value \in Values :
           UpsertCname(recordName, value)
    \/ \E recordName \in RecordNames : DeleteCname(recordName)
    \/ \E out \in ChangeOutputs : ChangeResourceRecordSetsReturn(out)
    \/ TimeoutFire
    \/ TickFire
    \/ SelectTick
    \/ SelectTimeout
    \/ SelectBlock
    \/ \E out \in GetChangeOutputs : GetChangeReturn(out)

Spec == Init /\ [][Next]_vars

-----------------------------------------------------------------------------
(* Two callers, each with the handle of its own zone, on one provider: the *)
(* goroutine of one runs while the other's is set aside, and they change  *)
(* places at any time. Each caller resolves its zone and makes one change: *)
(* the first an upsert or a delete, the second an upsert.                  *)

Callers == {1, 2}

\* the zone each caller asks for, as the provider holds it
CallerZone(i) ==
    IF i = 1
    THEN [Name |-> <<"b">>, Id |-> "Z1"]
    ELSE [Name |-> <<"a">>, Id |-> "Z2"]

\* the record each caller changes
CallerRecord(i) == IF i = 1 THEN <<"a", ".", "b">> ELSE <<"b", ".", "a">>

\* the provider's answers about a caller's zone
CallerListOutputs(i) ==
    {[err |-> e, HostedZones |-> <<>>] : e \in ProviderErrors}
    \cup {[err |-> "nil", HostedZones |-> <<CallerZone(i)>>]}

CallerGetHostedZoneOutputs(i) ==
    {[err |-> e, Id |-> "", NameServers |-> <<>>] : e \in ProviderErrors}
    \cup {[err |-> "nil", Id |-> CallerZone(i).Id,
            NameServers |-> <<"ns1", "ns2">>]}

\* the provider's answers about a caller's change: that of the second
\* caller is applied, or its poll fails, by the first poll
CallerGetChangeOutputs(i) ==
    {out \in GetChangeOutputs :
        i = 1 \/ ~(out.err = "nil" /\ out.Status = "PENDING")}

\* the variables of the running caller, as one value
Running ==
    [pc |-> pc, call |-> call, result |-> result, handle |-> handle,
     z |-> z, ops |-> ops, zonesOut |-> zonesOut, zoneOut |-> zoneOut,
     changeOut |-> changeOut, request |-> request, apiCalls |-> apiCalls,
     changeID |-> changeID, timeout |-> timeout, tick |-> tick,
     timeoutC |-> timeoutC, tickC |-> tickC, nextTick |-> nextTick,
     change |-> change, err |-> err, watch |-> watch,
     deadline |-> deadline, latePoll |-> latePoll,
     earlyOther |-> earlyOther, slowPoll |-> slowPoll]

\* handles that are one struct: the zone's fields stay those of the caller
\* that ran last
ResumeOnSharedZone(c) ==
    /\ pc' = c.pc
    /\ call' = c.call
    /\ result' = c.result
    /\ handle' = c.handle
    /\ z' = z
    /\ ops' = c.ops
    /\ zonesOut' = c.zonesOut
    /\ zoneOut' = c.zoneOut
    /\ changeOut' = c.changeOut
    /\ request' = c.request
    /\ apiCalls' = c.apiCalls
    /\ changeID' = c.changeID
    /\ timeout' = c.timeout
    /\ tick' = c.tick
    /\ timeoutC' = c.timeoutC
    /\ tickC' = c.tickC
    /\ nextTick' = c.nextTick
    /\ change' = c.change
    /\ err' = c.err
    /\ watch' = c.watch
    /\ deadline' = c.deadline
    /\ latePoll' = c.latePoll
    /\ earlyOther' = c.earlyOther
    /\ slowPoll' = c.slowPoll

\* the caller set aside runs again, on its own handle (newRoute53Zone
\* allocates one route53Zone for each) and with its own locals and timers
Resume(c) ==
    /\ pc' = c.pc
    /\ call' = c.call
    /\ result' = c.result
    /\ handle' = c.handle
    /\ z' = c.z
    /\ ops' = c.ops
    /\ zonesOut' = c.zonesOut
    /\ zoneOut' = c.zoneOut
    /\ changeOut' = c.changeOut
    /\ request' = c.request
    /\ apiCalls' = c.apiCalls
    /\ changeID' = c.changeID
    /\ timeout' = c.timeout
    /\ tick' = c.tick
    /\ timeoutC' = c.timeoutC
    /\ tickC' = c.tickC
    /\ nextTick' = c.nextTick
    /\ change' = c.change
    /\ err' = c.err
    /\ watch' = c.watch
    /\ deadline' = c.deadline
    /\ latePoll' = c.latePoll
    /\ earlyOther' = c.earlyOther
    /\ slowPoll' = c.slowPoll

\* the two goroutines change places
Switch ==
    /\ cur \in Callers
    /\ cur' = 3 - cur
    /\ peer' = Running
    /\ Resume(peer)
    /\ UNCHANGED <<nextChange, submitted, records, recordsWere, watched,
                   polled>>
    /\ UNCHANGED validatorVars

\* a step of the running caller: those of Next, for its zone and its record
CallerNext ==
    \/ call = NoCall /\ newRoute53Zone(CallerZone(cur).Name)
    \/ \E out \in CallerListOutputs(cur) : ListHostedZonesByNameReturn(out)
    \/ \E out \in CallerGetHostedZoneOutputs(cur) : GetHostedZoneReturn(out)
    \/ /\ call.fn = "newRoute53Zone"
       /\ \E value \in Values : UpsertCname(CallerRecord(cur), value)
    \/ /\ call.fn = "newRoute53Zone"
       /\ cur = 1
       /\ DeleteCname(CallerRecord(cur))
    \/ \E out \in ChangeOutputs : ChangeResourceRecordSetsReturn(out)
    \/ TimeoutFire
    \/ TickFire
    \/ SelectTick
    \/ SelectTimeout
    \/ SelectBlock
    \/ \E out \in CallerGetChangeOutputs(cur) : GetChangeReturn(out)

TwoInit ==
    /\ FlowInit
    /\ ValidatorIdle
    /\ cur = 1
    /\ peer = FreshCaller

TwoNext == CallerNext \/ Switch

TwoSpec == TwoInit /\ [][TwoNext]_vars

-----------------------------------------------------------------------------
(* The validator on its own: recordBelongsToZone applied to every record   *)
(* name of at most MaxRecordLen characters and every zone name of at most  *)
(* MaxZoneLen characters                                                   *)

\* a zone name as a provider holds it: labels that are not empty, separated
\* by dots, with or without the dot of the root at the end
WellFormed(n) ==
    /\ n # <<>>
    /\ n[1] # "."
    /\ \A i \in 1..(Len(n) - 1) : ~(n[i] = "." /\ n[i + 1] = ".")

ValidatorInit ==
    /\ FlowInit
    /\ OneCaller
    /\ vpc = "ready"
    /\ vRecord \in Str(MaxRecordLen)
    /\ vZone \in {n \in Str(MaxZoneLen) : WellFormed(n)}
    /\ vResult = FALSE
    /\ vDotted = NotValidated

Validate ==
    /\ vpc = "ready"
    /\ vResult' = recordBelongsToZone(vRecord, vZone)
    /\ vDotted' =
           [record |-> recordBelongsToZone(vRecord \o <<".">>, vZone),
            zone |-> recordBelongsToZone(vRecord, vZone \o <<".">>),
            both |-> recordBelongsToZone(vRecord \o <<".">>,
                                         vZone \o <<".">>)]
    /\ vpc' = "done"
    /\ UNCHANGED <<vRecord, vZone>>
    /\ UNCHANGED flowVars
    /\ UNCHANGED callerVars

ValidatorNext == Validate

ValidatorSpec == ValidatorInit /\ [][ValidatorNext]_vars

-----------------------------------------------------------------------------
(* Properties *)

IsChange == call.fn \in {"UpsertCname", "DeleteCname"}

\* s without one trailing dot
StripDot(s) ==
    IF s # <<>> /\ s[Len(s)] = "." THEN SubSeq(s, 1, Len(s) - 1) ELSE s

\* C1: an upsert or delete whose record name recordBelongsToZone rejects for
\* the zone's name returns errRoute53RecordNotInZone, and neither
\* ChangeResourceRecordSets nor GetChange is called during that call.
C1_RejectedRecordMakesNoCall ==
    (IsChange /\ ~recordBelongsToZone(call.name, z.Name)) =>
        /\ result = errRoute53RecordNotInZone
        /\ pc = "idle"
        /\ apiCalls.ChangeResourceRecordSets = 0
        /\ apiCalls.GetChange = 0
        /\ request = NoRequest
        /\ watch = "none"

C1_Witness ==
    /\ call.fn = "UpsertCname"
    /\ call.name = <<"a", ".", "a", ".", "b">>
    /\ ~recordBelongsToZone(call.name, z.Name)
    /\ result = errRoute53RecordNotInZone

\* the rule of C2: with one trailing dot stripped from each name, r differs
\* from z, ends with "." + z, and the rest of r is one label: it is not
\* empty and holds no dot
OneLabelDeeper(r, zn) ==
    LET rs == StripDot(r)
        zs == StripDot(zn)
    IN  /\ rs # zs
        /\ HasSuffix(rs, <<".">> \o zs)
        /\ Len(rs) > Len(zs) + 1
        /\ ~Contains(SubSeq(rs, 1, Len(rs) - Len(zs) - 1), <<".">>)

\* C2: recordBelongsToZone(r, z) is true exactly when, with a single trailing
\* dot stripped from each name, r is one label deeper than z.
C2_ValidatorIsOneLabelDeeper ==
    vpc = "done" => (vResult <=> OneLabelDeeper(vRecord, vZone))

\* C3: when ListHostedZonesByName succeeds, the resolution fails with
\* errRoute53NoHostedZoneFound exactly when no zone came back or the
\* candidate's name and the requested name differ after a trailing dot is
\* stripped from each.
C3_NotFoundIffNormalizedNamesDiffer ==
    (/\ call.fn = "newRoute53Zone"
     /\ pc # "ListHostedZonesByName"
     /\ zonesOut.err = "nil") =>
        ((result = errRoute53NoHostedZoneFound) <=>
            (\/ Len(zonesOut.HostedZones) = 0
             \/ StripDot(zonesOut.HostedZones[1].Name) # StripDot(call.name)))

Terminal == {"Applied", "TimedOut", "Errored"}

\* C4: the watcher returns success at the first poll that answers INSYNC,
\* however many polls answered PENDING before, and calls GetChange no more:
\* once a poll has answered INSYNC, waitForChange has returned nil.
C4_InsyncReturnsSuccess ==
    (err = "nil" /\ change = "INSYNC") =>
        /\ pc = "idle"
        /\ watch = "Applied"
        /\ result = "nil"

C4_Witness ==
    /\ change = "INSYNC"
    /\ watch = "Applied"
    /\ apiCalls.GetChange >= 3

\* C5: once the deadline timer has fired, no further poll is made and the
\* watch does not end in Applied or Errored.
C5_NothingAfterDeadline ==
    deadline => (~latePoll /\ watch \notin {"Applied", "Errored"})

\* C6: when every poll made before the deadline answered PENDING and the
\* deadline fired, the watcher returns errRoute53WaitWatchTimedOut.
C6_PendingUntilDeadlineTimesOut ==
    (watch \in Terminal /\ deadline /\ ~earlyOther) =>
        (watch = "TimedOut" /\ result = errRoute53WaitWatchTimedOut)

\* C7: when a GetChange poll returns an error, the watcher returns that same
\* error at once: it is in Errored, has returned, and polls no more.
C7_PollErrorIsReturned ==
    (err # "nil") =>
        /\ pc = "idle"
        /\ watch = "Errored"
        /\ result = err

C7_Witness ==
    /\ err = "Throttling"
    /\ watch = "Errored"
    /\ result = "Throttling"
    /\ apiCalls.GetChange >= 2

\* C8: whenever a watch has returned (Applied, TimedOut or Errored), neither
\* its ticker nor its deadline timer is still running.
C8_TimersReleased ==
    (watch \in Terminal) => (timeout = "stopped" /\ tick = "stopped")

C8_Witness ==
    /\ watch = "Errored"
    /\ apiCalls.GetChange >= 2
    /\ timeout = "stopped"
    /\ tick = "stopped"

\* C10: every accepted change yields one change identifier, watched once;
\* the identifiers differ from one change to the next, and each watch calls
\* GetChange with the identifier of its own change only.
C10_EachChangeWatchedOnce ==
    /\ Len(watched) = Len(submitted)
    /\ \A i \in 1..Len(submitted) : watched[i] = submitted[i].Id
    /\ \A i, j \in 1..Len(watched) : i # j => watched[i] # watched[j]
    /\ \A p \in polled : p[1] \in 1..Len(submitted) /\ p[2] = submitted[p[1]].Id
    /\ (watch # "none") => changeID = submitted[Len(submitted)].Id

C10_Witness ==
    /\ Len(submitted) = 2
    /\ submitted[1].Action = "UPSERT"
    /\ submitted[2].Action = "DELETE"
    /\ submitted[1].Name = submitted[2].Name
    /\ {<<1, submitted[1].Id>>, <<2, submitted[2].Id>>} \subseteq polled
    /\ watch \in Terminal

-----------------------------------------------------------------------------
(* The same calls under fair scheduling: the runtime fires the ticker and  *)
(* the timer when they are due, the provider answers every GetChange, the  *)
(* goroutine runs when it can, and the select, which picks at random among *)
(* the cases that are ready, does not pass over the timer's case forever.  *)

Fairness ==
    /\ WF_vars(TickFire)
    /\ WF_vars(TimeoutFire)
    /\ WF_vars(\E out \in GetChangeOutputs : GetChangeReturn(out))
    /\ WF_vars(SelectTick)
    /\ WF_vars(SelectBlock)
    /\ SF_vars(SelectTimeout)

FairSpec == Init /\ [][Next]_vars /\ Fairness

\* C9: under fair scheduling every watch ends in Applied, TimedOut or
\* Errored, whatever the polls answer.
C9_WatchEnds == (watch = "Polling") ~> (watch \in Terminal)

C9_Witness ==
    /\ watch = "TimedOut"
    /\ apiCalls.GetChange >= 11
    /\ change = "PENDING"
    /\ ~latePoll

-----------------------------------------------------------------------------
(* Errors of the provider, the zone's fields, the validator's dots *)

\* C11: within one call, the first provider operation that returns an error
\* is the last provider operation of the call, and the call returns that
\* error unchanged: no GetHostedZone after a failed ListHostedZonesByName,
\* no GetChange and no watch after a failed ChangeResourceRecordSets, no
\* further poll after a failed GetChange, and no operation called twice.
C11_FirstErrorEndsTheCall ==
    /\ zonesOut.err # "nil" =>
           /\ pc = "idle"
           /\ result = zonesOut.err
           /\ apiCalls = [NoCalls EXCEPT !.ListHostedZonesByName = 1]
    /\ zoneOut.err # "nil" =>
           /\ pc = "idle"
           /\ result = zoneOut.err
           /\ apiCalls = [NoCalls EXCEPT !.ListHostedZonesByName = 1,
                                         !.GetHostedZone = 1]
    /\ changeOut.err # "nil" =>
           /\ pc = "idle"
           /\ result = changeOut.err
           /\ apiCalls = [NoCalls EXCEPT !.ChangeResourceRecordSets = 1]
           /\ watch = "none"
    /\ err # "nil" =>
           /\ pc = "idle"
           /\ result = err
           /\ request.op = "GetChange"

C11_Witness ==
    /\ call.fn = "DeleteCname"
    /\ changeOut.err = "Throttling"
    /\ result = "Throttling"
    /\ pc = "idle"

\* C12: the zone's ID and Nameservers are both non-empty exactly when the
\* resolution has succeeded.
C12_IdAndNameserversIffResolved ==
    handle <=> (z.ID # "" /\ z.Nameservers # <<>>)

\* C13: no step of an upsert or a delete, its watch included, changes the
\* Name, the ID or the Nameservers of the zone, or takes the handle away.
C13_ZoneImmutable ==
    [][call'.fn \in {"UpsertCname", "DeleteCname"} =>
           (z' = z /\ handle' = handle)]_vars

C13_Witness ==
    /\ handle
    /\ z.Name = <<"b", ".">>
    /\ call.fn = "UpsertCname"
    /\ Len(submitted) = 2
    /\ watch \in Terminal

\* C14: for a record name and a zone name written without a trailing dot,
\* recordBelongsToZone gives the same answer when a dot is added to the
\* record name, to the zone name, or to both.
C14_TrailingDotIsIgnored ==
    (/\ vpc = "done"
     /\ vRecord # <<>> /\ vRecord[Len(vRecord)] # "."
     /\ vZone[Len(vZone)] # ".") =>
        /\ vDotted.record = vResult
        /\ vDotted.zone = vResult
        /\ vDotted.both = vResult

C14_Witness ==
    /\ vpc = "done"
    /\ vRecord = <<"a", ".", "b">>
    /\ vZone = <<"b">>
    /\ vResult
    /\ vDotted = [record |-> TRUE, zone |-> TRUE, both |-> TRUE]

-----------------------------------------------------------------------------
(* The submitted change, its watch, and the resolution as a whole *)

\* C16: when the provider accepts an upsert of the name and value of the
\* upsert it accepted just before, for the same zone, its record sets are
\* exactly what they were after the first one: the record of that name with
\* type CNAME, TTL 60 and the one value.
C16_UpsertIsIdempotent ==
    \A i \in 1..Len(submitted) :
        (/\ i = Len(submitted)
         /\ i >= 2
         /\ submitted[i].Action = "UPSERT"
         /\ submitted[i - 1].Action = "UPSERT"
         /\ submitted[i].HostedZoneId = submitted[i - 1].HostedZoneId
         /\ submitted[i].Name = submitted[i - 1].Name
         /\ submitted[i].Value = submitted[i - 1].Value) =>
            /\ records = recordsWere
            /\ [HostedZoneId |-> submitted[i].HostedZoneId,
                Name |-> submitted[i].Name,
                ResourceRecordSet |->
                    [Name |-> submitted[i].Name, TTL |-> 60, Type |-> "CNAME",
                     ResourceRecords |-> <<[Value |-> submitted[i].Value]>>]]
                   \in records

C16_Witness ==
    /\ Len(submitted) = 2
    /\ submitted[1].Action = "UPSERT"
    /\ submitted[2].Action = "UPSERT"
    /\ submitted[1].HostedZoneId = submitted[2].HostedZoneId
    /\ submitted[1].Name = submitted[2].Name
    /\ submitted[1].Value = submitted[2].Value
    /\ Cardinality(records) = 1
    /\ records = recordsWere
    /\ watch = "Applied"

\* C17: a watch exists, and GetChange is called, only in a call whose
\* ChangeResourceRecordSets the provider accepted, and only with the
\* identifier that answer carried; a call that returns
\* errRoute53WaitWatchTimedOut has had its change accepted.
C17_WatchOnlyAfterAcceptance ==
    /\ (watch # "none" \/ apiCalls.GetChange > 0
            \/ result = errRoute53WaitWatchTimedOut) =>
           /\ IsChange
           /\ apiCalls.ChangeResourceRecordSets = 1
           /\ changeOut.err = "nil"
           /\ changeID = changeOut.Id
           /\ submitted # <<>>
           /\ submitted[Len(submitted)].Id = changeOut.Id
           /\ submitted[Len(submitted)].Name = call.name
    /\ request.op = "GetChange" => request.Id = changeOut.Id

C17_Witness ==
    /\ call.fn = "UpsertCname"
    /\ result = errRoute53WaitWatchTimedOut
    /\ changeOut.err = "nil"
    /\ apiCalls.GetChange > 0

\* C18: the request of a change holds one change, for the zone's ID and the
\* caller's record name: an upsert has action UPSERT, type CNAME, TTL 60 and
\* the caller's value as its one value; a delete has action DELETE and a
\* record set of the name alone. What the provider accepted is that request.
C18_OneChangeForTheZone ==
    /\ request.op = "ChangeResourceRecordSets" =>
           /\ IsChange
           /\ Len(request.Changes) = 1
           /\ request.HostedZoneId = z.ID
           /\ request.Changes[1].ResourceRecordSet.Name = call.name
           /\ call.fn = "UpsertCname" =>
                  /\ request.Changes[1].Action = "UPSERT"
                  /\ request.Changes[1].ResourceRecordSet =
                         [Name |-> call.name, TTL |-> 60, Type |-> "CNAME",
                          ResourceRecords |-> <<[Value |-> call.value]>>]
           /\ call.fn = "DeleteCname" =>
                  /\ request.Changes[1].Action = "DELETE"
                  /\ request.Changes[1].ResourceRecordSet =
                         [Name |-> call.name]
    /\ (IsChange /\ watch # "none") =>
           /\ submitted[Len(submitted)].HostedZoneId = z.ID
           /\ submitted[Len(submitted)].Name = call.name
           /\ submitted[Len(submitted)].Action =
                  (IF call.fn = "UpsertCname" THEN "UPSERT" ELSE "DELETE")
           /\ submitted[Len(submitted)].ResourceRecordSet =
                  (IF call.fn = "UpsertCname"
                   THEN [Name |-> call.name, TTL |-> 60, Type |-> "CNAME",
                         ResourceRecords |-> <<[Value |-> call.value]>>]
                   ELSE [Name |-> call.name])

C18_Witness ==
    /\ call.fn = "DeleteCname"
    /\ request.op = "ChangeResourceRecordSets"
    /\ request.Changes[1].ResourceRecordSet = [Name |-> <<"a", ".", "b">>]
    /\ request.HostedZoneId = "Z2"
    /\ pc = "ChangeResourceRecordSets"

\* C19: a watch has polled only once its first tick has fired, one interval
\* after its start, and so has a watch that reports the change applied; a
\* watch during whose polls no timer fired has called GetChange at most 12
\* times.
C19_PollsAreSpacedAndBounded ==
    /\ (watch # "none" /\ apiCalls.GetChange > 0) =>
           nextTick >= 2 * defaultRoute53ZoneWaitWatchInterval
    /\ watch = "Applied" =>
           /\ apiCalls.GetChange > 0
           /\ nextTick >= 2 * defaultRoute53ZoneWaitWatchInterval
    /\ (watch # "none" /\ ~slowPoll) => apiCalls.GetChange <= 12

C19_Witness ==
    /\ watch = "TimedOut"
    /\ ~slowPoll
    /\ apiCalls.GetChange = 11

\* C20: GetHostedZone is called only after ListHostedZonesByName returned a
\* candidate of the requested name, once, and with that candidate's Id; a
\* resolution that has not succeeded has set no field of the zone and has
\* returned no handle.
C20_ResolveIsAllOrNothing ==
    /\ (call.fn = "newRoute53Zone" /\ apiCalls.GetHostedZone > 0) =>
           /\ apiCalls.GetHostedZone = 1
           /\ zonesOut.err = "nil"
           /\ Len(zonesOut.HostedZones) >= 1
           /\ zonesOut.HostedZones[1].Name = call.name
           /\ request = [op |-> "GetHostedZone",
                         Id |-> zonesOut.HostedZones[1].Id]
    /\ (call.fn = "newRoute53Zone" /\ result # "nil") =>
           /\ z = ZeroZone
           /\ ~handle

C20_Witness ==
    /\ call.fn = "newRoute53Zone"
    /\ zoneOut.err = "AccessDenied"
    /\ result = "AccessDenied"
    /\ z = ZeroZone
    /\ ~handle

-----------------------------------------------------------------------------
(* Two callers on two zones *)

\* what belongs to caller i, whether it runs or is set aside
View(i) == IF cur = i THEN Running ELSE peer

\* C15: with two callers on the handles of two zones, what belongs to a
\* caller (its zone's fields, its call, the answers it got, its result)
\* changes only in a step that this caller takes itself, and then as a step
\* of the one-caller program changes it; no step of the other caller and no
\* change of places touches it.
C15_CallersAreIndependent ==
    [][\A i \in Callers :
           View(i)' # View(i) => (cur = i /\ cur' = i /\ CallerNext)]_vars

C15_Witness ==
    /\ cur = 2
    /\ watch = "Applied"
    /\ z.Name = <<"a">>
    /\ peer.watch = "TimedOut"
    /\ peer.z.Name = <<"b">>
    /\ peer.result = errRoute53WaitWatchTimedOut

=============================================================================
